---- MODULE Spec2Model ----
(***************************************************************************)
(* Model of the ULBRA Supply MCP server (index.js, src/unnamed/part_001):   *)
(* the global token cache and getAuthToken, makeBackendRequest, the two     *)
(* search operations searchProducts and vectorSearchProducts, and the       *)
(* CallToolRequestSchema handler, together with the response validator of   *)
(* validate.js (src/unnamed/part_000).                                      *)
(*                                                                         *)
(* JavaScript values are tagged records, so that truthiness, `||`, `===`,   *)
(* property reads on null and JSON.stringify behave as they do in the       *)
(* program.  Time is counted in hours (one clock unit = MsPerUnit ms).      *)
(* Prices and thresholds are integers (tenths), since only their identity   *)
(* and their truthiness matter to the code.                                 *)
(***************************************************************************)
EXTENDS Integers, Sequences, FiniteSets, TLC

(***************************************************************************)
(* JavaScript values                                                        *)
(***************************************************************************)
Undefined == [t |-> "undefined"]
Null == [t |-> "null"]
Num(n) == [t |-> "number", n |-> n]
Str(s) == [t |-> "string", s |-> s]
Bool(b) == [t |-> "boolean", b |-> b]
Arr(a) == [t |-> "array", a |-> a]
Obj(o) == [t |-> "object", o |-> o]

\* An opaque bearer token: a non-empty string, told apart by the serial number
\* of the login exchange that issued it.
Tok(k) == [t |-> "string", s |-> "jwt", id |-> k]

\* ToBoolean(v): what `if (v)`, `!v`, `v && w` and `v || w` test.
Truthy(v) ==
    CASE v.t = "undefined" -> FALSE
      [] v.t = "null" -> FALSE
      [] v.t = "boolean" -> v.b
      [] v.t = "number" -> v.n # 0
      [] v.t = "string" -> v.s # ""
      [] OTHER -> TRUE

\* v || d
Or(v, d) == IF Truthy(v) THEN v ELSE d

\* v === w, for the operands the program compares (a value against a number).
StrictEq(v, w) == v.t = w.t /\ v = w

\* Reading a property of null or undefined throws a TypeError.
CanRead(v) == v.t \notin {"undefined", "null"}

\* v.k for a readable v: an own property, the length of an array or of a
\* string, else undefined.
Prop(v, k) ==
    IF v.t = "object" /\ k \in DOMAIN v.o THEN v.o[k]
    ELSE IF v.t = "array" /\ k = "length" THEN Num(Len(v.a))
    ELSE IF v.t = "string" /\ k = "length" THEN Num(Len(v.s))
    ELSE Undefined

\* The characters of numeric strings.
DecimalDigits == {"0", "1", "2", "3", "4", "5", "6", "7", "8", "9"}
OctalDigits == {"0", "1", "2", "3", "4", "5", "6", "7"}
BinaryDigits == {"0", "1"}
HexDigits == DecimalDigits \cup {"a", "b", "c", "d", "e", "f", "A", "B", "C", "D", "E", "F"}
\* StrWhiteSpaceChar: tab, line feed, vertical tab, form feed, carriage return,
\* space, no-break space, ogham space mark and the byte order mark.  The
\* remaining ones (U+2000 to U+200A, U+2028, U+2029, U+202F, U+205F, U+3000)
\* cannot be written in a string of this language, so no string here holds them.
StrWhiteSpace ==
    {" ", "\t", "\n", "\r", "\f", " ", " ", "﻿",
     ""}

DigitValue(ch) ==
    CASE ch = "0" -> 0 [] ch = "1" -> 1 [] ch = "2" -> 2 [] ch = "3" -> 3
      [] ch = "4" -> 4 [] ch = "5" -> 5 [] ch = "6" -> 6 [] ch = "7" -> 7
      [] ch = "8" -> 8 [] OTHER -> 9

\* The first n characters of s (all of it when it is shorter), and the rest.
Take(s, n) == IF n >= Len(s) THEN s ELSE SubSeq(s, 1, n)
Drop(s, n) == IF n >= Len(s) THEN "" ELSE SubSeq(s, n + 1, Len(s))

\* The length of the longest prefix of s made of characters of set, found by
\* halving the string.
RECURSIVE LeadingIn(_, _)
LeadingIn(s, set) ==
    IF s = "" THEN 0
    ELSE IF Len(s) = 1 THEN IF s \in set THEN 1 ELSE 0
    ELSE LET half == Len(s) \div 2
             left == LeadingIn(Take(s, half), set)
         IN IF left < half THEN left ELSE half + LeadingIn(Drop(s, half), set)

\* The length of the longest suffix of s made of characters of set.
RECURSIVE TrailingIn(_, _)
TrailingIn(s, set) ==
    IF s = "" THEN 0
    ELSE IF Len(s) = 1 THEN IF s \in set THEN 1 ELSE 0
    ELSE LET half == Len(s) \div 2
             right == TrailingIn(Drop(s, half), set)
         IN IF right < Len(s) - half THEN right
            ELSE right + TrailingIn(Take(s, half), set)

\* The string without its leading and trailing white space.
TrimLeft(s) == Drop(s, LeadingIn(s, StrWhiteSpace))

TrimRight(s) == Take(s, Len(s) - TrailingIn(s, StrWhiteSpace))

\* The length of the longest common prefix of two strings of the same length.
RECURSIVE CommonPrefix(_, _)
CommonPrefix(a, b) ==
    IF a = b THEN Len(a)
    ELSE IF Len(a) = 1 THEN 0
    ELSE LET half == Len(a) \div 2 IN
         IF Take(a, half) = Take(b, half)
         THEN half + CommonPrefix(Drop(a, half), Drop(b, half))
         ELSE CommonPrefix(Take(a, half), Take(b, half))

CharAt(s, i) == SubSeq(s, i, i)

DigitChar(d) ==
    CASE d = 0 -> "0" [] d = 1 -> "1" [] d = 2 -> "2" [] d = 3 -> "3"
      [] d = 4 -> "4" [] d = 5 -> "5" [] d = 6 -> "6" [] d = 7 -> "7"
      [] d = 8 -> "8" [] OTHER -> "9"

\* The decimal digits of a natural number, without leading zeros ("" for 0).
RECURSIVE NatDigits(_)
NatDigits(n) == IF n = 0 THEN "" ELSE NatDigits(n \div 10) \o DigitChar(n % 10)

\* "lt", "eq" or "gt": how a compares with b, for two naturals written in
\* decimal digits of the same length.
CompareDigits(a, b) ==
    LET same == CommonPrefix(a, b) IN
    IF same = Len(a) THEN "eq"
    ELSE IF DigitValue(CharAt(a, same + 1)) < DigitValue(CharAt(b, same + 1)) THEN "lt"
    ELSE "gt"

\* The same for two naturals written without leading zeros, of any length.
CompareNat(a, b) ==
    IF Len(a) < Len(b) THEN "lt"
    ELSE IF Len(a) > Len(b) THEN "gt"
    ELSE CompareDigits(a, b)

\* 0.a <= 0.b for two strings of decimal digits.
FractionLeq(a, b) ==
    LET n == IF Len(a) < Len(b) THEN Len(a) ELSE Len(b)
        same == CommonPrefix(Take(a, n), Take(b, n))
    IN IF same < n
       THEN DigitValue(CharAt(a, same + 1)) < DigitValue(CharAt(b, same + 1))
       ELSE LeadingIn(Drop(a, n), {"0"}) = Len(a) - n

\* The digits of 2^-1075, which is 0.247...E-323: half of the smallest
\* positive double.  A decimal at or below it rounds to 0.
HalfMinDigits ==
    "2470328229206232720882843964341106861825299013071623822127928412" \o
    "5033775363510437593264991818081799618989828234772285886546332835" \o
    "5177969898199387398005390939063150356595155702263922908583924491" \o
    "0518443593180284993653615250031937045767824921936562366986365848" \o
    "0757001585769269903706311928279558551332927834338409351978015531" \o
    "2465972635795746227664652728272200563740064854999770965994704540" \o
    "2082816622623785739345073633900796776193057750674017632467360096" \o
    "8951340535537458516661134223766678604162159680461914467291840300" \o
    "5300575308490487653917113865916462395249126236538818796362393732" \o
    "8042389101867234849766823508986338858792562830275599565752445550" \o
    "7255189313690836254779186948667994968324049705821028513185451396" \o
    "213837722826145437693412532098591327667236328125"
HalfMinExponent == -324

\* How lead + E, or lead - E when the exponent is negative, compares with
\* HalfMinExponent, E being the exponent written in expDigits: the exponent is
\* compared digit by digit, whatever its length.
MagnitudeOrder(lead, expNegative, expDigits) ==
    LET e == Drop(expDigits, LeadingIn(expDigits, {"0"})) IN
    IF expNegative
    THEN IF lead - HalfMinExponent < 0 THEN "lt"
         ELSE LET c == CompareNat(e, NatDigits(lead - HalfMinExponent)) IN
              IF c = "gt" THEN "lt" ELSE IF c = "lt" THEN "gt" ELSE "eq"
    ELSE IF HalfMinExponent - lead < 0 THEN "gt"
         ELSE CompareNat(e, NatDigits(HalfMinExponent - lead))

\* The sign of the double with significant digits `digits`, of which the
\* first ni stand before the decimal point, times ten to the exponent: 0
\* when every digit is 0 or the value rounds to 0.
RoundedSign(digits, ni, expNegative, expDigits) ==
    LET nz == LeadingIn(digits, {"0"})
        order == MagnitudeOrder(ni - nz - 1, expNegative, expDigits)
    IN IF nz = Len(digits) THEN "zero"
       ELSE IF order = "lt" THEN "zero"
       ELSE IF order = "eq" /\ FractionLeq(Drop(digits, nz), HalfMinDigits) THEN "zero"
       ELSE "pos"

\* The exponent part: e or E, an optional sign, digits, and nothing after.
ExponentSign(digits, ni, r) ==
    LET signed == Len(r) > 1 /\ Take(Tail(r), 1) \in {"+", "-"}
        ds == IF signed THEN Drop(r, 2) ELSE Drop(r, 1)
    IN IF ds = "" \/ LeadingIn(ds, DecimalDigits) # Len(ds) THEN "nan"
       ELSE RoundedSign(digits, ni, signed /\ Take(Tail(r), 1) = "-", ds)

\* What follows the digits of the mantissa: nothing, or an exponent part.
MantissaSign(digits, ni, r) ==
    IF digits = "" THEN "nan"
    ELSE IF r = "" THEN RoundedSign(digits, ni, FALSE, "")
    ELSE IF Head(r) \in {"e", "E"} THEN ExponentSign(digits, ni, r)
    ELSE "nan"

\* What follows the integer digits int: a point and fraction digits, or not.
FractionSign(int, r) ==
    IF r # "" /\ Head(r) = "."
    THEN LET nf == LeadingIn(Tail(r), DecimalDigits) IN
         MantissaSign(int \o Take(Tail(r), nf), Len(int), Drop(Tail(r), nf))
    ELSE MantissaSign(int, Len(int), r)

\* The sign of the double an unsigned decimal literal denotes, "nan" when the
\* string is not one: Infinity, or digits with an optional fraction and an
\* optional exponent.
DecimalSign(r) ==
    IF r = "Infinity" THEN "pos"
    ELSE LET ni == LeadingIn(r, DecimalDigits) IN
         FractionSign(Take(r, ni), Drop(r, ni))

\* The sign of the number a 0x, 0o or 0b literal denotes.
RadixSign(r, digits) ==
    LET body == Drop(r, 2) IN
    IF body = "" \/ LeadingIn(body, digits) # Len(body) THEN "nan"
    ELSE IF LeadingIn(body, {"0"}) = Len(body) THEN "zero"
    ELSE "pos"

\* The sign of ToNumber(s) for a string: "nan", "neg", "zero" or "pos".
StringSign(s) ==
    LET r == TrimRight(TrimLeft(s)) IN
    IF r = "" THEN "zero"
    ELSE IF Head(r) = "-"
    THEN LET d == DecimalSign(Tail(r)) IN IF d = "pos" THEN "neg" ELSE d
    ELSE IF Head(r) = "+" THEN DecimalSign(Tail(r))
    ELSE IF Take(r, 2) \in {"0x", "0X"} THEN RadixSign(r, HexDigits)
    ELSE IF Take(r, 2) \in {"0o", "0O"} THEN RadixSign(r, OctalDigits)
    ELSE IF Take(r, 2) \in {"0b", "0B"} THEN RadixSign(r, BinaryDigits)
    ELSE DecimalSign(r)

\* The sign of ToNumber(v).  An array converts through the string that joins
\* its elements (null and undefined join as the empty string), an object
\* through "[object Object]".
RECURSIVE NumberSign(_)
NumberSign(v) ==
    CASE v.t = "number" -> IF v.n > 0 THEN "pos" ELSE IF v.n < 0 THEN "neg" ELSE "zero"
      [] v.t = "boolean" -> IF v.b THEN "pos" ELSE "zero"
      [] v.t = "null" -> "zero"
      [] v.t = "undefined" -> "nan"
      [] v.t = "string" -> StringSign(v.s)
      [] v.t = "array" ->
            IF Len(v.a) = 0 THEN "zero"
            ELSE IF Len(v.a) > 1 THEN "nan"
            ELSE IF v.a[1].t \in {"null", "undefined"} THEN "zero"
            ELSE IF v.a[1].t = "boolean" THEN "nan"
            ELSE NumberSign(v.a[1])
      [] OTHER -> "nan"

\* Converting v to a primitive throws a TypeError: an object parsed from JSON
\* whose own toString property hides the inherited method (no JSON value is
\* callable), or an array that has to join such an object.
RECURSIVE ToPrimitiveThrows(_)
ToPrimitiveThrows(v) ==
    CASE v.t = "object" -> "toString" \in DOMAIN v.o
      [] v.t = "array" -> \E i \in 1..Len(v.a) : ToPrimitiveThrows(v.a[i])
      [] OTHER -> FALSE

\* v > 0: the relational comparison after ToNumber (NaN compares false).
GtZero(v) == NumberSign(v) = "pos"

\* typeof v
TypeOf(v) ==
    CASE v.t = "null" -> "object"
      [] v.t = "array" -> "object"
      [] OTHER -> v.t

\* Array.isArray(v)
IsArray(v) == v.t = "array"

\* Completion of an evaluation: a value, or a thrown Error with its message.
Ok(v) == [thrown |-> FALSE, v |-> v]
Throw(msg) == [thrown |-> TRUE, msg |-> msg]

\* JSON.parse(JSON.stringify(v)): object properties whose value is undefined
\* are dropped, undefined array elements become null.
RECURSIVE Stringify(_)
Stringify(v) ==
    CASE v.t = "object" ->
           Obj([k \in {j \in DOMAIN v.o : v.o[j].t # "undefined"} |-> Stringify(v.o[k])])
      [] v.t = "array" ->
           Arr([i \in 1..Len(v.a) |->
                  IF v.a[i].t = "undefined" THEN Null ELSE Stringify(v.a[i])])
      [] OTHER -> v

(***************************************************************************)
(* Program constants                                                        *)
(***************************************************************************)
\* One clock unit of the model is one hour of Date.now().
MsPerUnit == 60 * 60 * 1000

\* tokenExpiry = Date.now() + (23 * 60 * 60 * 1000), in clock units.
TokenCacheUnits == (23 * 60 * 60 * 1000) \div MsPerUnit

\* "token is valid for 24h": the validity window the backend gives a token.
TokenValidUnits == (24 * 60 * 60 * 1000) \div MsPerUnit

\* The handler's and the operations' defaults (limit = 10, threshold = 0.7,
\* thresholds being counted in tenths).
DefaultLimit == Num(10)
DefaultThreshold == Num(7)

VectorEndpoint == "/api/supply/products/vector-search"
ListingEndpoint == "/api/supply/products"

\* `Unknown tool: ${name}`, for the one unknown name the model dispatches.
UnknownToolMsg == "Unknown tool: products.unknown"

AuthFailedMsg == "Failed to authenticate with backend"
BackendFailedMsg == "Backend request failed: upstream"
TypeErrorMsg == "TypeError"

(***************************************************************************)
(* Search Orchestrator: the pure parts of searchProducts and                *)
(* vectorSearchProducts                                                     *)
(***************************************************************************)
\* product => ({code, name, unit, estimatedPrice: product.priceEstimated,
\*              description, type, family, similarity: product.similarity || null})
NormalizeProduct(product) ==
    Obj([code |-> Prop(product, "code"),
         name |-> Prop(product, "name"),
         unit |-> Prop(product, "unit"),
         estimatedPrice |-> Prop(product, "priceEstimated"),
         description |-> Prop(product, "description"),
         type |-> Prop(product, "type"),
         family |-> Prop(product, "family"),
         similarity |-> Or(Prop(product, "similarity"), Null)])

\* The fallback's first projection of a listing row (no similarity key).
ListingProduct(product) ==
    Obj([code |-> Prop(product, "code"),
         name |-> Prop(product, "name"),
         unit |-> Prop(product, "unit"),
         estimatedPrice |-> Prop(product, "priceEstimated"),
         description |-> Prop(product, "description"),
         type |-> Prop(product, "type"),
         family |-> Prop(product, "family")])

\* (results.products || []).map(normalize): a TypeError when the value has no
\* map method or an element is null/undefined.
MapNormalize(v) ==
    IF ~IsArray(v) THEN Throw(TypeErrorMsg)
    ELSE IF \E i \in 1..Len(v.a) : ~CanRead(v.a[i]) THEN Throw(TypeErrorMsg)
    ELSE Ok(Arr([i \in 1..Len(v.a) |-> NormalizeProduct(v.a[i])]))

\* nameResults.map(listing projection)
MapListing(v) ==
    IF ~IsArray(v) THEN Throw(TypeErrorMsg)
    ELSE IF \E i \in 1..Len(v.a) : ~CanRead(v.a[i]) THEN Throw(TypeErrorMsg)
    ELSE Ok(Arr([i \in 1..Len(v.a) |-> ListingProduct(v.a[i])]))

\* Mutant: the fallback is triggered by success alone.
FallbackOnFailureOnly(results) == ~Truthy(Prop(results, "success"))

\* Mutant: the totalFound test is inverted.
FallbackWhenFound(results) ==
    ~Truthy(Prop(results, "success")) \/ ~StrictEq(Prop(results, "totalFound"), Num(0))

\* !results.success || results.totalFound === 0
FallbackNeeded(results) ==
    ~Truthy(Prop(results, "success")) \/ StrictEq(Prop(results, "totalFound"), Num(0))

\* nameResults && nameResults.length > 0
ListingUsable(nameResults) ==
    Truthy(nameResults) /\ GtZero(Prop(nameResults, "length"))

\* The results object the fallback builds from a usable listing.
ListingResults(query, nameResults) ==
    LET m == MapListing(nameResults) IN
    IF m.thrown THEN m
    ELSE Ok(Obj([success |-> Bool(TRUE),
                 query |-> query,
                 totalFound |-> Prop(nameResults, "length"),
                 products |-> m.v]))

\* Mutant: the return statement passes on the success of the results.
SearchReturnPassesSuccess(query, results) ==
    LET m == MapNormalize(Or(Prop(results, "products"), Arr(<<>>))) IN
    IF m.thrown THEN m
    ELSE Ok(Obj([success |-> Prop(results, "success"),
                 query |-> query,
                 totalFound |-> Or(Prop(results, "totalFound"), Num(0)),
                 products |-> m.v]))

\* The return statement of searchProducts.
SearchReturn(query, results) ==
    LET m == MapNormalize(Or(Prop(results, "products"), Arr(<<>>))) IN
    IF m.thrown THEN m
    ELSE Ok(Obj([success |-> Bool(TRUE),
                 query |-> query,
                 totalFound |-> Or(Prop(results, "totalFound"), Num(0)),
                 products |-> m.v]))

\* searchProducts after the listing call returned nameResults.
SearchAfterListing(query, results, nameResults) ==
    IF Truthy(nameResults) /\ ToPrimitiveThrows(Prop(nameResults, "length"))
    THEN Throw(TypeErrorMsg)
    ELSE IF ListingUsable(nameResults)
    THEN LET r == ListingResults(query, nameResults) IN
         IF r.thrown THEN r ELSE SearchReturn(query, r.v)
    ELSE SearchReturn(query, results)

\* The return statement of vectorSearchProducts.
VectorReturn(query, threshold, results) ==
    IF ~CanRead(results) THEN Throw(TypeErrorMsg)
    ELSE LET m == MapNormalize(Or(Prop(results, "products"), Arr(<<>>))) IN
         IF m.thrown THEN m
         ELSE Ok(Obj([success |-> Prop(results, "success"),
                      query |-> query,
                      totalFound |-> Or(Prop(results, "totalFound"), Num(0)),
                      threshold |-> Or(Prop(results, "threshold"), threshold),
                      products |-> m.v,
                      cacheInfo |-> Or(Prop(results, "cacheInfo"), Null)]))

\* The catch block of both operations.
FailureEnvelope(msg, query) ==
    Obj([success |-> Bool(FALSE),
         error |-> Str(msg),
         query |-> query,
         totalFound |-> Num(0),
         products |-> Arr(<<>>)])

\* Mutant: the catch block rethrows instead of returning the envelope.
CatchRethrows(completion, query) == completion

\* try { ... } catch (error) { return envelope }: what the operation hands
\* to its caller for a completion of its body.
CatchAll(completion, query) ==
    IF completion.thrown THEN Ok(FailureEnvelope(completion.msg, query))
    ELSE completion

(***************************************************************************)
(* Tool Gateway: the pure parts of the CallToolRequestSchema handler        *)
(***************************************************************************)
SearchTool == "products.search"
VectorTool == "products.vectorSearch"

\* A destructuring default: `x = d` takes d exactly when the property is undefined.
Default(v, d) == IF v.t = "undefined" THEN d ELSE v

\* return { content: [{ type: 'text', text: JSON.stringify(result, null, 2) }] }
ToolOutput(result) == [isError |-> FALSE, payload |-> Stringify(result)]

\* Mutant: the handler's catch forgets the isError flag.
ToolErrorUnflagged(msg) ==
    [isError |-> FALSE,
     payload |-> Stringify(Obj([success |-> Bool(FALSE), error |-> Str(msg)]))]

\* The handler's catch: { content: [... {success: false, error: error.message}], isError: true }
ToolErrorOutput(msg) ==
    [isError |-> TRUE,
     payload |-> Stringify(Obj([success |-> Bool(FALSE), error |-> Str(msg)]))]

\* What the handler returns for the completion of the operation it awaited.
HandlerReturn(completion) ==
    IF completion.thrown THEN ToolErrorOutput(completion.msg)
    ELSE ToolOutput(completion.v)

(***************************************************************************)
(* Bounds and inputs of the model                                           *)
(***************************************************************************)
\* Tool calls handled in one run of the server.
MaxCalls == 2

\* The clock stops advancing at this many hours.
MaxTime == 36

\* Hours by which the clock may advance in one step.
TickSteps == {11, 12}

\* Call slots: Spec handles one tool call at a time, SpecConc two at once.
Slots == {1, 2}
SeqSlots == {1}

ToolNames == {SearchTool, VectorTool, "products.unknown"}

Query == Str("seringa")

ArgsSet ==
    {Obj([query |-> Query]),
     Obj([query |-> Query, limit |-> Num(1)]),
     Obj([query |-> Query, limit |-> Num(1), threshold |-> Num(3)]),
     Obj([limit |-> Num(1)]),
     Undefined}

\* Backend products (priceEstimated in tenths: 25 is 2.5).
ProductX ==
    Obj([code |-> Num(12345), name |-> Str("X"), unit |-> Str("UN"),
         priceEstimated |-> Num(25), similarity |-> Num(9)])
ProductY ==
    Obj([code |-> Num(777), name |-> Str("Y"), unit |-> Str("CX"),
         priceEstimated |-> Num(40), description |-> Str("d"),
         type |-> Str("t"), family |-> Str("f")])

\* Bodies the vector-search endpoint may answer with (2xx), well-formed or not.
VectorBodies ==
    {Obj([success |-> Bool(TRUE), totalFound |-> Num(1), threshold |-> Num(5),
          products |-> Arr(<<ProductX>>), cacheInfo |-> Obj([hit |-> Bool(TRUE)])]),
     Obj([success |-> Bool(TRUE), totalFound |-> Num(3),
          products |-> Arr(<<ProductX, ProductY>>)]),
     Obj([success |-> Bool(TRUE), totalFound |-> Num(0), threshold |-> Num(0),
          products |-> Arr(<<>>)]),
     Obj([success |-> Bool(FALSE), totalFound |-> Num(1),
          products |-> Arr(<<ProductX>>)]),
     Obj([success |-> Bool(TRUE), totalFound |-> Num(1), products |-> Arr(<<Null>>)]),
     Obj([success |-> Bool(TRUE), totalFound |-> Num(1), products |-> Obj([n |-> Num(1)])]),
     Obj([error |-> Str("bad request")]),
     Null}

\* Bodies the listing endpoint may answer with (2xx): a raw array, or not.
ListingBodies ==
    {Arr(<<ProductX, ProductY>>),
     Arr(<<>>),
     Arr(<<Null>>),
     Obj([length |-> Num(1)]),
     Obj([length |-> Str("2")]),
     Str("<html>"),
     Null}

\* What the backend may do with a POST /login.
LoginOutcomes == {"token", "notoken", "nullbody", "error"}

(***************************************************************************)
(* State                                                                    *)
(***************************************************************************)
VARIABLES
    authToken,      \* let authToken = null
    tokenExpiry,    \* let tokenExpiry = null
    now,            \* Date.now(), in hours
    issued,         \* backend: issued[k] is the time token k was issued
    call,           \* per slot: the tool call being handled and its locals
    output,         \* per slot: what the handler returned for the last call
    hist,           \* per slot: what the call did (requests sent, tokens obtained)
    started,        \* tool calls received so far
    failed          \* tool calls answered from a catch block so far

vars == <<authToken, tokenExpiry, now, issued, call, output, hist, started, failed>>

NoOutput == [isError |-> FALSE, payload |-> Undefined]

IdleCall ==
    [pc |-> "idle", name |-> "", args |-> Undefined, op |-> "",
     query |-> Undefined, limit |-> Undefined, threshold |-> Undefined,
     endpoint |-> "", params |-> Undefined, token |-> Undefined,
     results |-> Undefined, response |-> Undefined]

EmptyHist ==
    [attempts |-> <<>>, gets |-> <<>>, logins |-> 0, served |-> <<>>,
     bodies |-> <<>>, thrown |-> <<>>, returned |-> <<>>]

Init ==
    /\ authToken = Null
    /\ tokenExpiry = Null
    /\ now = 0
    /\ issued = <<>>
    /\ call = [c \in Slots |-> IdleCall]
    /\ output = [c \in Slots |-> NoOutput]
    /\ hist = [c \in Slots |-> EmptyHist]
    /\ started = 0
    /\ failed = 0

(***************************************************************************)
(* Credential Cache and Backend Client                                      *)
(***************************************************************************)
\* Mutant: the expiry comparison is inverted.
CacheValidInverted ==
    Truthy(authToken) /\ Truthy(tokenExpiry) /\ now > tokenExpiry.n

\* authToken && tokenExpiry && Date.now() < tokenExpiry
CacheValid ==
    Truthy(authToken) /\ Truthy(tokenExpiry) /\ now < tokenExpiry.n

\* Mutant: the expiry is set to the token's full validity, without the margin.
NewExpiryNoMargin == Num(now + TokenValidUnits)

\* Date.now() + (23 * 60 * 60 * 1000)
NewExpiry == Num(now + TokenCacheUnits)

\* Mutant: a rejected POST is swallowed and no token is returned.
LoginFailureSwallowed(response) ==
    IF response.status # "ok" THEN Ok(Undefined)
    ELSE IF ~CanRead(response.data) THEN Throw(AuthFailedMsg)
    ELSE Ok(Prop(response.data, "token"))

\* The try block of getAuthToken applied to the login response: a rejected
\* POST or an unreadable body ends in the catch, which throws the
\* authentication error; otherwise response.data.token is returned.
LoginCompletion(response) ==
    IF response.status # "ok" THEN Throw(AuthFailedMsg)
    ELSE IF ~CanRead(response.data) THEN Throw(AuthFailedMsg)
    ELSE Ok(Prop(response.data, "token"))

\* What the backend answers to POST /login; token k is the k-th it issues.
LoginResponseOf(outcome, k) ==
    CASE outcome = "token" -> [status |-> "ok", data |-> Obj([token |-> Tok(k)])]
      [] outcome = "notoken" -> [status |-> "ok", data |-> Obj([message |-> Str("ok")])]
      [] outcome = "nullbody" -> [status |-> "ok", data |-> Null]
      [] OTHER -> [status |-> "error", data |-> Undefined]

\* axios.get(`${BACKEND_URL}${endpoint}`, {headers: {Authorization: `Bearer ${token}`}, params})
SendGet(cl, h, endpoint, params, token) ==
    [cl |-> [cl EXCEPT !.pc = "get_wait", !.endpoint = endpoint,
                       !.params = params, !.token = token],
     h |-> [h EXCEPT !.served = Append(@, [token |-> token, at |-> now]),
                     !.gets = Append(@, [endpoint |-> endpoint, params |-> params,
                                         token |-> token])]]

\* axios.post(`${BACKEND_URL}/login`, ...)
SendLogin(cl, h, endpoint, params) ==
    [cl |-> [cl EXCEPT !.pc = "login_wait", !.endpoint = endpoint, !.params = params],
     h |-> [h EXCEPT !.logins = @ + 1]]

\* makeBackendRequest(endpoint, params) up to its first wait on the network:
\* getAuthToken answers from the cache and the GET is sent, or it posts a login.
BeginRequest(cl, h, endpoint, params) ==
    LET h1 == [h EXCEPT !.attempts = Append(@, endpoint)] IN
    IF CacheValid THEN SendGet(cl, h1, endpoint, params, authToken)
    ELSE SendLogin(cl, h1, endpoint, params)

\* Mutant: an exception inside an operation ends the process after the answer.
ExitsOnThrow(cl, h, completion) ==
    LET handed == CatchAll(completion, cl.query) IN
    [cl |-> [cl EXCEPT !.pc = IF completion.thrown THEN "exited" ELSE "done"],
     h |-> [h EXCEPT !.thrown = IF completion.thrown THEN Append(@, completion.msg) ELSE @,
                     !.returned = Append(@, handed)],
     out |-> HandlerReturn(handed)]

\* The operation's body ended (returned a value or threw): its try/catch
\* decides what the handler receives, and the handler returns its output.
EndOperation(cl, h, completion) ==
    LET handed == CatchAll(completion, cl.query) IN
    [cl |-> [cl EXCEPT !.pc = "done"],
     h |-> [h EXCEPT !.thrown = IF completion.thrown THEN Append(@, completion.msg) ELSE @,
                     !.returned = Append(@, handed)],
     out |-> HandlerReturn(handed)]

\* Mutant: the fallback calls the vector-search endpoint again.
RetryVectorSearch(cl, h, results) ==
    IF ~CanRead(results) THEN EndOperation(cl, h, Throw(TypeErrorMsg))
    ELSE IF FallbackNeeded(results)
    THEN BeginRequest([cl EXCEPT !.results = results], h, VectorEndpoint,
                      Obj([query |-> cl.query, limit |-> cl.limit]))
    ELSE EndOperation(cl, h, SearchReturn(cl.query, results))

\* searchProducts once the vector-search call returned `results`.
AfterVectorOfSearch(cl, h, results) ==
    IF ~CanRead(results) THEN EndOperation(cl, h, Throw(TypeErrorMsg))
    ELSE IF FallbackNeeded(results)
    THEN BeginRequest([cl EXCEPT !.results = results], h, ListingEndpoint,
                      Obj([search |-> cl.query, limit |-> cl.limit]))
    ELSE EndOperation(cl, h, SearchReturn(cl.query, results))

\* Mutant: the vector search shares the literal search's fallback.
FallbackForBoth(cl, h, body) ==
    IF cl.endpoint = VectorEndpoint
    THEN AfterVectorOfSearch(cl, h, body)
    ELSE EndOperation(cl, h, SearchAfterListing(cl.query, cl.results, body))

\* Mutant: the vector search reports in its result whether it had to log in.
ReportsLogin(cl, h, body) ==
    IF cl.op = SearchTool /\ cl.endpoint = VectorEndpoint
    THEN AfterVectorOfSearch(cl, h, body)
    ELSE IF cl.op = SearchTool
    THEN EndOperation(cl, h, SearchAfterListing(cl.query, cl.results, body))
    ELSE LET r == VectorReturn(cl.query, cl.threshold, body) IN
         EndOperation(cl, h,
             IF r.thrown THEN r
             ELSE Ok(Obj([k \in DOMAIN r.v.o \cup {"loggedIn"} |->
                            IF k = "loggedIn" THEN Bool(h.logins > 0) ELSE r.v.o[k]])))

\* The code that runs when makeBackendRequest returns `body` to the operation.
AfterBody(cl, h, body) ==
    IF cl.op = SearchTool /\ cl.endpoint = VectorEndpoint
    THEN AfterVectorOfSearch(cl, h, body)
    ELSE IF cl.op = SearchTool
    THEN EndOperation(cl, h, SearchAfterListing(cl.query, cl.results, body))
    ELSE EndOperation(cl, h, VectorReturn(cl.query, cl.threshold, body))

\* The handler's switch, up to the first wait on the network.
Dispatch(cl, h, name, args) ==
    IF name \in {SearchTool, VectorTool} /\ ~CanRead(args)
    THEN [cl |-> [cl EXCEPT !.pc = "done"], h |-> h, out |-> ToolErrorOutput(TypeErrorMsg)]
    ELSE IF name = SearchTool
    THEN LET q == Prop(args, "query")
             l == Default(Default(Prop(args, "limit"), DefaultLimit), DefaultLimit)
         IN BeginRequest([cl EXCEPT !.op = SearchTool, !.query = q, !.limit = l], h,
                         VectorEndpoint, Obj([query |-> q, limit |-> l]))
    ELSE IF name = VectorTool
    THEN LET q == Prop(args, "query")
             l == Default(Default(Prop(args, "limit"), DefaultLimit), DefaultLimit)
             th == Default(Default(Prop(args, "threshold"), DefaultThreshold),
                           DefaultThreshold)
         IN BeginRequest([cl EXCEPT !.op = VectorTool, !.query = q, !.limit = l,
                                    !.threshold = th], h,
                         VectorEndpoint, Obj([query |-> q, limit |-> l, threshold |-> th]))
    ELSE [cl |-> [cl EXCEPT !.pc = "done"], h |-> h,
          out |-> ToolErrorOutput(UnknownToolMsg)]

\* The output of a step: the handler's return when the step ended the call.
OutOf(step, c) == IF "out" \in DOMAIN step THEN step.out ELSE output[c]

\* The step ended its call in a catch block: the handler's catch produced the
\* error-flagged output, or the operation's catch produced the envelope for
\* the exception recorded in the call's history.
IsFailure(step) == step.out.isError \/ step.h.thrown # <<>>

\* The failures so far, once a step has run: one more when it ended a call
\* in a catch block.
FailedAfter(step) ==
    IF "out" \in DOMAIN step /\ IsFailure(step) THEN failed + 1 ELSE failed

(***************************************************************************)
(* Actions: one per turn of the event loop, and the environment's           *)
(***************************************************************************)
\* A tool call arrives and the handler runs to its first wait on the network.
\* The call takes the lowest slot that holds no call in flight.
CallTool(c, name, args) ==
    /\ call[c].pc \in {"idle", "done"}
    /\ \A b \in Slots : b < c => call[b].pc \notin {"idle", "done"}
    /\ started < MaxCalls
    /\ LET step == Dispatch([IdleCall EXCEPT !.name = name, !.args = args],
                            EmptyHist, name, args)
       IN /\ call' = [call EXCEPT ![c] = step.cl]
          /\ hist' = [hist EXCEPT ![c] = step.h]
          /\ output' = [output EXCEPT ![c] =
                           IF "out" \in DOMAIN step THEN step.out ELSE NoOutput]
          /\ failed' = FailedAfter(step)
    /\ started' = started + 1
    /\ UNCHANGED <<authToken, tokenExpiry, now, issued>>

\* The backend handles a POST /login: it issues a token now, or answers
\* without one, or fails.
BackendLogin(c, outcome) ==
    /\ call[c].pc = "login_wait"
    /\ call' = [call EXCEPT ![c].pc = "login_replied",
                            ![c].response = LoginResponseOf(outcome, Len(issued) + 1)]
    /\ issued' = IF outcome = "token" THEN Append(issued, now) ELSE issued
    /\ UNCHANGED <<authToken, tokenExpiry, now, output, hist, started, failed>>

\* The login response reaches getAuthToken, which stores the token and its
\* expiry and returns it to makeBackendRequest, which sends the GET; or the
\* authentication error propagates to the operation's catch.
LoginResponse(c) ==
    /\ call[c].pc = "login_replied"
    /\ LET got == LoginCompletion(call[c].response)
           cl == [call[c] EXCEPT !.response = Undefined]
       IN IF got.thrown
          THEN LET step == EndOperation(cl, hist[c], got)
               IN /\ call' = [call EXCEPT ![c] = step.cl]
                  /\ hist' = [hist EXCEPT ![c] = step.h]
                  /\ output' = [output EXCEPT ![c] = step.out]
                  /\ failed' = FailedAfter(step)
                  /\ UNCHANGED <<authToken, tokenExpiry>>
          ELSE LET step == SendGet(cl, hist[c], cl.endpoint, cl.params, got.v)
               IN /\ authToken' = got.v
                  /\ tokenExpiry' = NewExpiry
                  /\ call' = [call EXCEPT ![c] = step.cl]
                  /\ hist' = [hist EXCEPT ![c] = step.h]
                  /\ UNCHANGED <<output, failed>>
    /\ UNCHANGED <<now, issued, started>>

\* The GET is rejected (transport error or non-2xx): makeBackendRequest throws
\* the backend-request error, which the operation's catch receives.
GetFails(c) ==
    /\ call[c].pc = "get_wait"
    /\ LET step == EndOperation(call[c], hist[c], Throw(BackendFailedMsg))
       IN /\ call' = [call EXCEPT ![c] = step.cl]
          /\ hist' = [hist EXCEPT ![c] = step.h]
          /\ output' = [output EXCEPT ![c] = step.out]
          /\ failed' = FailedAfter(step)
    /\ UNCHANGED <<authToken, tokenExpiry, now, issued, started>>

\* The GET is answered 2xx with `body`, and the operation runs on to its
\* return or to its next wait on the network.
GetResponse(c, body) ==
    /\ call[c].pc = "get_wait"
    /\ LET h == [hist[c] EXCEPT !.bodies = Append(@, [endpoint |-> call[c].endpoint,
                                                        body |-> body])]
           step == AfterBody(call[c], h, body)
       IN /\ call' = [call EXCEPT ![c] = step.cl]
          /\ hist' = [hist EXCEPT ![c] = step.h]
          /\ output' = [output EXCEPT ![c] = OutOf(step, c)]
          /\ failed' = FailedAfter(step)
    /\ UNCHANGED <<authToken, tokenExpiry, now, issued, started>>

\* Time passes.
Tick(d) ==
    /\ now + d <= MaxTime
    /\ now' = now + d
    /\ UNCHANGED <<authToken, tokenExpiry, issued, call, output, hist, started, failed>>

BodiesFor(endpoint) == IF endpoint = VectorEndpoint THEN VectorBodies ELSE ListingBodies

Next ==
    \/ \E c \in SeqSlots, name \in ToolNames, args \in ArgsSet : CallTool(c, name, args)
    \/ \E c \in SeqSlots, outcome \in LoginOutcomes : BackendLogin(c, outcome)
    \/ \E c \in SeqSlots : LoginResponse(c)
    \/ \E c \in SeqSlots : GetFails(c)
    \/ \E c \in SeqSlots : \E body \in BodiesFor(call[c].endpoint) : GetResponse(c, body)
    \/ \E d \in TickSteps : Tick(d)

Spec == Init /\ [][Next]_vars

(***************************************************************************)
(* Two tool calls in flight at once (the host permits it): the calls        *)
(* interleave at every wait on the network.  The inputs are fewer, the      *)
(* interleavings are all there.                                             *)
(***************************************************************************)
ConcToolNames == {SearchTool, VectorTool}

ConcArgsSet == {Obj([query |-> Query])}

ConcLoginOutcomes == {"token", "notoken", "error"}

ConcTickSteps == {13}

ConcBodiesFor(endpoint) ==
    IF endpoint = VectorEndpoint
    THEN {Obj([success |-> Bool(TRUE), totalFound |-> Num(1), threshold |-> Num(5),
               products |-> Arr(<<ProductX>>), cacheInfo |-> Obj([hit |-> Bool(TRUE)])]),
          Obj([success |-> Bool(TRUE), totalFound |-> Num(0), threshold |-> Num(0),
               products |-> Arr(<<>>)])}
    ELSE {Arr(<<>>)}

NextConc ==
    \/ \E c \in Slots, name \in ConcToolNames, args \in ConcArgsSet : CallTool(c, name, args)
    \/ \E c \in Slots, outcome \in ConcLoginOutcomes : BackendLogin(c, outcome)
    \/ \E c \in Slots : LoginResponse(c)
    \/ \E c \in Slots : GetFails(c)
    \/ \E c \in Slots : \E body \in ConcBodiesFor(call[c].endpoint) : GetResponse(c, body)
    \/ \E d \in ConcTickSteps : Tick(d)

SpecConc == Init /\ [][NextConc]_vars

(***************************************************************************)
(* Observations the properties are stated with                              *)
(***************************************************************************)
\* Slot c holds a call of operation op whose handler has returned.
Finished(c, op) == call[c].pc = "done" /\ call[c].op = op

\* The endpoints of the GETs call c sent, in order.
GetEndpoints(c) == [i \in 1..Len(hist[c].gets) |-> hist[c].gets[i].endpoint]

\* Call c received a readable 2xx body from the vector-search endpoint.
HasVectorBody(c) ==
    /\ hist[c].bodies # <<>>
    /\ hist[c].bodies[1].endpoint = VectorEndpoint
    /\ CanRead(hist[c].bodies[1].body)

VectorBody(c) == hist[c].bodies[1].body

\* An exception with this message occurred inside the operation of call c.
Raised(c, msg) == \E i \in 1..Len(hist[c].thrown) : hist[c].thrown[i] = msg

\* The GET the fallback sends: /api/supply/products with search=<query> and limit.
IsListingGet(c, g) ==
    /\ g.endpoint = ListingEndpoint
    /\ g.params = Obj([search |-> Prop(call[c].args, "query"), limit |-> call[c].limit])

(***************************************************************************)
(* C1. Neither search operation ever raises to its caller: whatever the     *)
(* backend does, searchProducts and vectorSearchProducts hand a value to    *)
(* the handler, and when an exception occurred inside the operation that    *)
(* value is {success:false, error:<non-empty string>, query:<the requested  *)
(* query>, totalFound:0, products:[]}.                                      *)
(***************************************************************************)
C1_NeverRaises ==
    \A c \in Slots :
        (call[c].pc = "done" /\ call[c].op \in {SearchTool, VectorTool}) =>
            /\ Len(hist[c].returned) = 1
            /\ ~hist[c].returned[1].thrown
            /\ hist[c].thrown # <<>> =>
                   LET v == hist[c].returned[1].v IN
                   /\ v.t = "object"
                   /\ DOMAIN v.o = {"success", "error", "query", "totalFound", "products"}
                   /\ v.o.success = Bool(FALSE)
                   /\ v.o.error.t = "string" /\ v.o.error.s # ""
                   /\ v.o.query = Prop(call[c].args, "query")
                   /\ v.o.totalFound = Num(0)
                   /\ v.o.products = Arr(<<>>)

\* A literal search has returned after the projection of its listing body
\* threw a TypeError (a body of unexpected shape), both GETs having been sent.
C1_Witness ==
    /\ Finished(1, SearchTool)
    /\ Len(hist[1].gets) = 2
    /\ Raised(1, TypeErrorMsg)
    /\ ~hist[1].returned[1].thrown

(***************************************************************************)
(* C2. Field mapping on every path that returns products: each product of   *)
(* the result carries as estimatedPrice the priceEstimated of the backend   *)
(* product it comes from (a row of the listing when the fallback answered,  *)
(* else a product of the vector-search response) and has no priceEstimated  *)
(* key.                                                                     *)
(***************************************************************************)
\* The backend products the result of call c was built from.
SourceProducts(c) ==
    LET last == hist[c].bodies[Len(hist[c].bodies)] IN
    IF last.endpoint = ListingEndpoint /\ ListingUsable(last.body)
    THEN last.body
    ELSE Or(Prop(VectorBody(c), "products"), Arr(<<>>))

C2_FieldMapping ==
    \A c \in Slots :
        (call[c].pc = "done" /\ call[c].op \in {SearchTool, VectorTool}
            /\ hist[c].thrown = <<>>) =>
            LET ps == hist[c].returned[1].v.o.products.a
                src == SourceProducts(c).a
            IN /\ Len(ps) = Len(src)
               /\ \A i \in 1..Len(ps) :
                      /\ ps[i].o.estimatedPrice = Prop(src[i], "priceEstimated")
                      /\ "priceEstimated" \notin DOMAIN ps[i].o

(***************************************************************************)
(* C3. When the vector-search GET of a literal search is answered with      *)
(* totalFound = 0, the call issues exactly one more GET, to the listing     *)
(* endpoint with search=<query> and limit: two search GETs in all.          *)
(***************************************************************************)
VectorFoundNone(c) ==
    HasVectorBody(c) /\ StrictEq(Prop(VectorBody(c), "totalFound"), Num(0))

\* Every token getAuthToken returned to call c is a token: no login of the
\* call was answered without one.
TokensWellFormed(c) ==
    \A i \in 1..Len(hist[c].served) : Truthy(hist[c].served[i].token)

\* The claim as stated, for the calls whose logins were all answered with a
\* token (its refutation does not rest on a malformed login body).
C3_TwoGets ==
    \A c \in Slots :
        (Finished(c, SearchTool) /\ VectorFoundNone(c) /\ TokensWellFormed(c)) =>
            /\ Len(hist[c].gets) = 2
            /\ hist[c].gets[1].endpoint = VectorEndpoint
            /\ IsListingGet(c, hist[c].gets[2])

\* As amended: exactly one more Backend Client call is made, to the listing
\* endpoint; its GET (search=<query>, limit) is sent unless the getAuthToken
\* that precedes it throws, so the call sends two search GETs when that
\* authentication succeeds and one when it fails.
C3_OneFallbackCall ==
    \A c \in Slots :
        (Finished(c, SearchTool) /\ VectorFoundNone(c)) =>
            /\ hist[c].attempts = <<VectorEndpoint, ListingEndpoint>>
            /\ hist[c].gets[1].endpoint = VectorEndpoint
            /\ IF Raised(c, AuthFailedMsg)
               THEN Len(hist[c].gets) = 1
               ELSE Len(hist[c].gets) = 2 /\ IsListingGet(c, hist[c].gets[2])

\* A literal search whose vector search found nothing has returned the rows
\* of the listing it fetched with its second GET.
C3_Witness ==
    /\ Finished(1, SearchTool)
    /\ VectorFoundNone(1)
    /\ Len(hist[1].gets) = 2
    /\ hist[1].thrown = <<>>
    /\ Len(hist[1].returned[1].v.o.products.a) = 2

(***************************************************************************)
(* C4. When the vector-search GET of a literal search is answered with      *)
(* totalFound > 0, the fallback GET is not issued (one search GET in the    *)
(* call), whatever the other fields of the response are, success included.  *)
(***************************************************************************)
VectorFoundSome(c) ==
    HasVectorBody(c) /\ GtZero(Prop(VectorBody(c), "totalFound"))

\* The claim as stated.
C4_NoFallback ==
    \A c \in Slots :
        (call[c].op = SearchTool /\ VectorFoundSome(c)) =>
            /\ hist[c].attempts = <<VectorEndpoint>>
            /\ GetEndpoints(c) = <<VectorEndpoint>>

\* As amended: the same, for responses whose success is truthy.
C4_NoFallbackOnSuccess ==
    \A c \in Slots :
        (call[c].op = SearchTool /\ VectorFoundSome(c)
            /\ Truthy(Prop(VectorBody(c), "success"))) =>
            /\ hist[c].attempts = <<VectorEndpoint>>
            /\ GetEndpoints(c) = <<VectorEndpoint>>

\* A literal search answered success:true, totalFound:3 has returned after
\* its one GET.
C4_Witness ==
    /\ Finished(1, SearchTool)
    /\ VectorFoundSome(1)
    /\ Prop(VectorBody(1), "totalFound") = Num(3)
    /\ Truthy(Prop(VectorBody(1), "success"))
    /\ Len(hist[1].gets) = 1
    /\ hist[1].returned[1].v.o.success = Bool(TRUE)

(***************************************************************************)
(* C5. When the vector-search GET of a literal search fails (transport or   *)
(* non-2xx error), the call falls back: it then issues the GET to the       *)
(* listing endpoint.                                                        *)
(***************************************************************************)
C5_FallbackOnFailure ==
    \A c \in Slots :
        (Finished(c, SearchTool) /\ GetEndpoints(c) # <<>>
            /\ hist[c].bodies = <<>> /\ Raised(c, BackendFailedMsg)) =>
            \E i \in 1..Len(hist[c].attempts) : hist[c].attempts[i] = ListingEndpoint

(***************************************************************************)
(* C6. In one literal search the vector-search call is attempted exactly    *)
(* once and before any listing GET, the listing GET is attempted at most    *)
(* once (not retried when it fails), and at most two search GETs are sent.  *)
(***************************************************************************)
C6_AtMostTwoCalls ==
    \A c \in Slots :
        call[c].op = SearchTool =>
            /\ hist[c].attempts \in {<<VectorEndpoint>>, <<VectorEndpoint, ListingEndpoint>>}
            /\ GetEndpoints(c) \in {<<>>, <<VectorEndpoint>>,
                                    <<VectorEndpoint, ListingEndpoint>>}
            /\ Len(hist[c].gets) <= Len(hist[c].attempts)
            /\ Len(hist[c].gets) <= 2
            /\ call[c].pc = "done" =>
                   Cardinality({i \in 1..Len(hist[c].attempts) :
                                   hist[c].attempts[i] = VectorEndpoint}) = 1

\* A literal search has returned after its listing GET failed: the GET was
\* not sent again.
C6_Witness ==
    /\ Finished(1, SearchTool)
    /\ GetEndpoints(1) = <<VectorEndpoint, ListingEndpoint>>
    /\ Len(hist[1].bodies) = 1
    /\ Raised(1, BackendFailedMsg)

(***************************************************************************)
(* C7. A vector search never issues the GET to the listing endpoint,        *)
(* whatever the vector-search response or failure is, and its search-GET    *)
(* count is always exactly 1.                                               *)
(***************************************************************************)
\* The claim as stated.
C7_ExactlyOneGet ==
    \A c \in Slots :
        Finished(c, VectorTool) => GetEndpoints(c) = <<VectorEndpoint>>

\* As amended: it never issues the listing GET and makes exactly one Backend
\* Client call; its search-GET count is 1 when getAuthToken returns and 0
\* when getAuthToken throws, never more.
C7_OneCallNoFallback ==
    \A c \in Slots :
        call[c].op = VectorTool =>
            /\ hist[c].attempts = <<VectorEndpoint>>
            /\ GetEndpoints(c) \in {<<>>, <<VectorEndpoint>>}
            /\ call[c].pc = "done" =>
                   IF Raised(c, AuthFailedMsg)
                   THEN GetEndpoints(c) = <<>>
                   ELSE GetEndpoints(c) = <<VectorEndpoint>>

\* A vector search answered totalFound:0 has returned after its one GET.
C7_Witness ==
    /\ Finished(1, VectorTool)
    /\ VectorFoundNone(1)
    /\ GetEndpoints(1) = <<VectorEndpoint>>
    /\ hist[1].thrown = <<>>

(***************************************************************************)
(* C8. Every payload the tool-call handler returns, on every path, is       *)
(* SearchResult-shaped: a boolean success, a string query, a number         *)
(* totalFound >= 0 and an array products, and an error string when success  *)
(* is false.                                                                *)
(***************************************************************************)
HasTyped(p, k, type) == k \in DOMAIN p.o /\ TypeOf(p.o[k]) = type

SearchResultShaped(p) ==
    /\ p.t = "object"
    /\ HasTyped(p, "success", "boolean")
    /\ HasTyped(p, "query", "string")
    /\ HasTyped(p, "totalFound", "number") /\ p.o.totalFound.n >= 0
    /\ "products" \in DOMAIN p.o /\ IsArray(p.o.products)
    /\ p.o.success = Bool(FALSE) => HasTyped(p, "error", "string")

C8_PayloadShaped ==
    \A c \in Slots : call[c].pc = "done" => SearchResultShaped(output[c].payload)

(***************************************************************************)
(* C9. The Credential Cache never serves an expired token: in every         *)
(* interleaving of concurrent tool calls, with login responses arriving in  *)
(* any order and after any delay, each token getAuthToken returns is, when  *)
(* it is returned, inside its validity window of 24 hours from the moment   *)
(* the backend issued it.                                                   *)
(***************************************************************************)
C9_NeverExpired ==
    \A c \in Slots :
        \A i \in 1..Len(hist[c].served) :
            LET s == hist[c].served[i] IN
            Truthy(s.token) => s.at < issued[s.token.id] + TokenValidUnits

(***************************************************************************)
(* C10. Token refresh is single-flight: concurrent getAuthToken calls made  *)
(* while no valid token is cached do not each start a login exchange; at    *)
(* most one POST /login is in flight.                                       *)
(***************************************************************************)
LoginsInFlight == {c \in Slots : call[c].pc \in {"login_wait", "login_replied"}}

C10_SingleFlight == Cardinality(LoginsInFlight) <= 1

(***************************************************************************)
(* Steps the temporal properties are stated with                            *)
(***************************************************************************)
\* In this step slot c receives a new tool call (the lowest free slot does).
NewCall(c) ==
    /\ started' = started + 1
    /\ call[c].pc \in {"idle", "done"}
    /\ \A b \in Slots : b < c => call[b].pc \notin {"idle", "done"}

\* In this step call c starts a Backend Client call (makeBackendRequest).
BeginsRequest(c) ==
    \/ NewCall(c) /\ hist'[c].attempts # <<>>
    \/ started' = started /\ Len(hist'[c].attempts) = Len(hist[c].attempts) + 1

\* The logins and GETs call c had sent before the step.
LoginsBefore(c) == IF started' = started THEN hist[c].logins ELSE 0
GetsBefore(c) == IF started' = started THEN hist[c].gets ELSE <<>>

(***************************************************************************)
(* C11. Credential reuse: of two sequential Backend Client calls that both  *)
(* start while now < tokenExpiry of the token the first obtained, only the  *)
(* first performs a login exchange (one in total), and both GETs carry the  *)
(* same token.  Stated on the second call: a Backend Client call that       *)
(* starts while a token is cached and now < tokenExpiry posts no login and  *)
(* sends its GET at once with the cached token, which stays cached.         *)
(***************************************************************************)
ReusesToken(c) ==
    (BeginsRequest(c) /\ Truthy(authToken) /\ Truthy(tokenExpiry) /\ now < tokenExpiry.n) =>
        /\ hist'[c].logins = LoginsBefore(c)
        /\ call'[c].pc = "get_wait"
        /\ Len(hist'[c].gets) = Len(GetsBefore(c)) + 1
        /\ hist'[c].gets[Len(hist'[c].gets)].token = authToken
        /\ authToken' = authToken /\ tokenExpiry' = tokenExpiry

C11_CredentialReuse == [][\A c \in Slots : ReusesToken(c)]_vars

\* The second tool call, made 11 hours or more after the first obtained
\* token 1, has sent its GET with token 1 and no login; one login in total.
C11_Witness ==
    /\ started = 2
    /\ call[1].pc = "get_wait"
    /\ hist[1].logins = 0
    /\ hist[1].gets[1].token = Tok(1)
    /\ Len(issued) = 1
    /\ now > issued[1]

(***************************************************************************)
(* C12. Credential refresh: a Backend Client call that starts when          *)
(* now >= tokenExpiry performs exactly one new login exchange before its    *)
(* GET; when the response is processed the cached token is replaced by the  *)
(* response's and tokenExpiry becomes now + 23h, and the GET carries the    *)
(* new token.  No getAuthToken call performs more than one login exchange.  *)
(***************************************************************************)
RefreshesToken(c) ==
    /\ (BeginsRequest(c) /\ Truthy(tokenExpiry) /\ now >= tokenExpiry.n) =>
           /\ call'[c].pc = "login_wait"
           /\ hist'[c].logins = LoginsBefore(c) + 1
           /\ hist'[c].gets = GetsBefore(c)
    /\ (started' = started /\ call[c].pc = "login_replied" /\ call'[c].pc = "get_wait") =>
           /\ authToken' = Prop(call[c].response.data, "token")
           /\ tokenExpiry' = Num(now + 23)
           /\ hist'[c].gets = Append(hist[c].gets,
                                     [endpoint |-> call[c].endpoint,
                                      params |-> call[c].params,
                                      token |-> authToken'])
           /\ hist'[c].logins = hist[c].logins
    /\ (started' = started /\ call[c].pc \in {"login_wait", "login_replied"}) =>
           /\ call'[c].pc \in {"login_wait", "login_replied", "get_wait", "done"}
           /\ hist'[c].logins = hist[c].logins
    /\ hist'[c].logins <= Len(hist'[c].attempts)

C12_CredentialRefresh == [][\A c \in Slots : RefreshesToken(c)]_vars

\* A call that found token 1 expired has logged in once, stored token 2 with
\* a fresh expiry and sent its GET with token 2.
C12_Witness ==
    /\ call[1].pc = "get_wait"
    /\ authToken = Tok(2)
    /\ tokenExpiry = Num(now + 23)
    /\ now >= issued[1] + 23
    /\ hist[1].logins = 1
    /\ hist[1].gets[Len(hist[1].gets)].token = Tok(2)

(***************************************************************************)
(* C13. When the login exchange fails with a network error or a non-2xx     *)
(* response, getAuthToken throws the authentication error and leaves        *)
(* (authToken, tokenExpiry) as they were; it does not try again within the  *)
(* call.  The next getAuthToken call that finds no valid cached token       *)
(* performs a fresh login exchange, one per call.                           *)
(***************************************************************************)
\* In this step getAuthToken of call c receives a rejected login.
FailedLoginStep(c) ==
    /\ started' = started
    /\ call[c].pc = "login_replied" /\ call[c].response.status # "ok"
    /\ call'[c] # call[c]

NoValidToken == ~(Truthy(authToken) /\ Truthy(tokenExpiry) /\ now < tokenExpiry.n)

FailsCleanly(c) ==
    /\ FailedLoginStep(c) =>
           /\ authToken' = authToken /\ tokenExpiry' = tokenExpiry
           /\ hist'[c].thrown = Append(hist[c].thrown, AuthFailedMsg)
           /\ hist'[c].logins = hist[c].logins
           /\ hist'[c].gets = hist[c].gets
           /\ call'[c].pc = "done"
    /\ (BeginsRequest(c) /\ NoValidToken) =>
           /\ call'[c].pc = "login_wait"
           /\ hist'[c].logins = LoginsBefore(c) + 1

C13_LoginFailure == [][\A c \in Slots : FailsCleanly(c)]_vars

\* A literal search obtained token 1, found it expired before its fallback
\* and had the new login rejected: it has returned with the authentication
\* error, token 1 and its expiry still cached, two logins posted in all.
C13_Witness ==
    /\ Finished(1, SearchTool)
    /\ hist[1].thrown = <<AuthFailedMsg>>
    /\ hist[1].logins = 2
    /\ Len(hist[1].gets) = 1
    /\ Len(issued) = 1
    /\ authToken = Tok(1)
    /\ tokenExpiry = Num(issued[1] + 23)

(***************************************************************************)
(* C14. When the login exchange is answered 2xx with a malformed body (no   *)
(* token field), getAuthToken throws the authentication error, leaves the   *)
(* cached token and expiry as they were and returns no token, so the        *)
(* enclosing search returns a success:false result without sending a GET.   *)
(***************************************************************************)
\* In this step getAuthToken of call c receives a 2xx login without a token.
MalformedLoginStep(c) ==
    /\ started' = started
    /\ call[c].pc = "login_replied" /\ call[c].response.status = "ok"
    /\ CanRead(call[c].response.data)
    /\ Prop(call[c].response.data, "token").t = "undefined"
    /\ call'[c] # call[c]

RejectsMalformedLogin(c) ==
    MalformedLoginStep(c) =>
        /\ authToken' = authToken /\ tokenExpiry' = tokenExpiry
        /\ hist'[c].thrown = Append(hist[c].thrown, AuthFailedMsg)
        /\ hist'[c].gets = hist[c].gets
        /\ call'[c].pc = "done"
        /\ Prop(output'[c].payload, "success") = Bool(FALSE)

C14_MalformedLogin == [][\A c \in Slots : RejectsMalformedLogin(c)]_vars

(***************************************************************************)
(* C15. A tool call whose name is neither products.search nor               *)
(* products.vectorSearch sends no login and no GET and returns an           *)
(* error-flagged output (isError true, payload success:false with an error  *)
(* string); no exception thrown while a call is handled leaves the handler  *)
(* unwrapped: every call that ends has an output, and a call that ended     *)
(* outside both operations has the error-flagged one.                       *)
(***************************************************************************)
ErrorFlagged(o) ==
    /\ o.isError
    /\ o.payload.t = "object"
    /\ Prop(o.payload, "success") = Bool(FALSE)
    /\ Prop(o.payload, "error").t = "string" /\ Prop(o.payload, "error").s # ""

C15_UnknownTool ==
    \A c \in Slots :
        call[c].pc = "done" =>
            /\ output[c].payload.t = "object"
            /\ call[c].op = "" => ErrorFlagged(output[c])
            /\ call[c].name \notin {SearchTool, VectorTool} =>
                   /\ hist[c] = EmptyHist
                   /\ ErrorFlagged(output[c])
                   /\ output[c].payload.o.error = Str(UnknownToolMsg)

\* products.unknown has been dispatched and answered with the flagged error.
C15_Witness ==
    /\ call[1].pc = "done"
    /\ call[1].name = "products.unknown"
    /\ output[1].isError
    /\ output[1].payload.o.error = Str(UnknownToolMsg)
    /\ hist[1].logins = 0 /\ hist[1].gets = <<>>

(***************************************************************************)
(* C16. A call to products.search or products.vectorSearch whose arguments  *)
(* lack the query field is rejected before dispatch: the Orchestrator       *)
(* method is not entered and neither a login exchange nor a GET is sent     *)
(* for that call.                                                           *)
(***************************************************************************)
LacksQuery(args) == ~CanRead(args) \/ Prop(args, "query") = Undefined

C16_QueryRequired ==
    \A c \in Slots :
        (/\ call[c].pc # "idle"
         /\ call[c].name \in {SearchTool, VectorTool}
         /\ LacksQuery(call[c].args)) =>
            /\ call[c].op = ""
            /\ hist[c] = EmptyHist

(***************************************************************************)
(* C17. For every non-empty query and every limit >= 1, whatever the        *)
(* backend answers on the vector-search GET or on the fallback listing GET, *)
(* the SearchResult returned by literalSearch has at most limit products.   *)
(***************************************************************************)
ValidSearchArgs(c) ==
    /\ call[c].query.t = "string" /\ call[c].query.s # ""
    /\ call[c].limit.t = "number" /\ call[c].limit.n >= 1

C17_LimitRespected ==
    \A c \in Slots :
        (/\ Finished(c, SearchTool)
         /\ ValidSearchArgs(c)
         /\ IsArray(Prop(output[c].payload, "products"))) =>
            Len(output[c].payload.o.products.a) <= call[c].limit.n

(***************************************************************************)
(* C18. vectorSearch is deterministic in its arguments and the backend      *)
(* data: two vectorSearch calls with identical (query, limit, threshold)    *)
(* that received identical vector-search data return identical payloads,    *)
(* whatever the state of the credential cache each started from (one may    *)
(* have posted a login while the other was served from the cache).          *)
(***************************************************************************)
SameVectorRun(c, d) ==
    /\ Finished(c, VectorTool) /\ Finished(d, VectorTool)
    /\ call[c].args = call[d].args
    /\ HasVectorBody(c) /\ HasVectorBody(d)
    /\ VectorBody(c) = VectorBody(d)

C18_VectorDeterministic ==
    \A c, d \in Slots : SameVectorRun(c, d) => output[c] = output[d]

\* The first call found no token and logged in, the second was served from the
\* cache; both received the same data and both have returned.
C18_Witness ==
    /\ SameVectorRun(1, 2)
    /\ hist[1].logins = 1 /\ hist[2].logins = 0
    /\ hist[1].served # <<>> /\ hist[2].served # <<>>
    /\ ~output[1].isError
    /\ output[1].payload.o.success = Bool(TRUE)

(***************************************************************************)
(* C19. On a vectorSearch that did not fail, the result's threshold is the  *)
(* threshold of the backend response whenever the response has one (0       *)
(* included) and the requested threshold only when the response has none;   *)
(* success and totalFound are the backend's values.                         *)
(***************************************************************************)
Provides(body, k) == Prop(body, k) # Undefined

PassesThrough(c, k) ==
    Provides(VectorBody(c), k) =>
        Prop(output[c].payload, k) = Prop(VectorBody(c), k)

C19_ThresholdPassThrough ==
    \A c \in Slots :
        (/\ Finished(c, VectorTool)
         /\ hist[c].thrown = <<>>
         /\ HasVectorBody(c)) =>
            /\ PassesThrough(c, "success")
            /\ PassesThrough(c, "totalFound")
            /\ PassesThrough(c, "threshold")
            /\ ~Provides(VectorBody(c), "threshold") =>
                   Prop(output[c].payload, "threshold") = call[c].threshold

(***************************************************************************)
(* C20. No call failure is fatal or poisons later calls: after failed tool  *)
(* calls (login failure, malformed login body, GET failure, unknown         *)
(* operation, missing arguments) the handler still accepts the next call,   *)
(* and a call whose logins and GETs the backend answers correctly returns a *)
(* success:true result, however many calls failed before it.                *)
(***************************************************************************)
InFlight(c) == call[c].pc \in {"login_wait", "login_replied", "get_wait"}

AcceptsNextCall(c) ==
    ENABLED (\E name \in ToolNames, args \in ArgsSet : CallTool(c, name, args))

AllReadable(arr) == \A i \in 1..Len(arr.a) : arr.a[i].t = "object"

\* A vector-search body as the backend documents it, reporting success.
CorrectVectorBody(b) ==
    /\ b.t = "object"
    /\ Prop(b, "success") = Bool(TRUE)
    /\ Prop(b, "totalFound").t = "number"
    /\ IsArray(Prop(b, "products")) /\ AllReadable(Prop(b, "products"))

\* A listing body as the backend documents it: an array of products.
CorrectListingBody(b) == IsArray(b) /\ AllReadable(b)

\* Every login of call c was answered with a token and every GET with a
\* correct body.
AnsweredCorrectly(c) ==
    /\ call[c].pc = "done"
    /\ call[c].op \in {SearchTool, VectorTool}
    /\ hist[c].gets # <<>>
    /\ Len(hist[c].gets) = Len(hist[c].attempts)
    /\ TokensWellFormed(c)
    /\ Len(hist[c].bodies) = Len(hist[c].gets)
    /\ \A i \in 1..Len(hist[c].bodies) :
           IF hist[c].bodies[i].endpoint = VectorEndpoint
           THEN CorrectVectorBody(hist[c].bodies[i].body)
           ELSE CorrectListingBody(hist[c].bodies[i].body)

ReturnsSuccess(c) ==
    /\ ~output[c].isError
    /\ Prop(output[c].payload, "success") = Bool(TRUE)

C20_FailuresNotFatal ==
    \A c \in SeqSlots :
        /\ (~InFlight(c) /\ started < MaxCalls) => AcceptsNextCall(c)
        /\ AnsweredCorrectly(c) => ReturnsSuccess(c)

\* The first call failed, the second was accepted, logged in and was answered
\* correctly: it returned success:true.
C20_Witness ==
    /\ started = 2 /\ failed = 1
    /\ AnsweredCorrectly(1)
    /\ hist[1].logins = 1
    /\ ReturnsSuccess(1)

(***************************************************************************)
(* C21. A failed GET is not retried and triggers no re-authentication: the  *)
(* step in which makeBackendRequest learns of the failure sends no further  *)
(* GET and no login, raises the backend-request error and leaves            *)
(* (authToken, tokenExpiry) unchanged; and the credential pair is changed   *)
(* by nothing other than a successful login exchange, one whose response    *)
(* carried a token.                                                         *)
(***************************************************************************)
\* The step in which call c's GET is rejected.
FailedGetStep(c) ==
    /\ started' = started
    /\ call[c].pc = "get_wait" /\ call'[c].pc # "get_wait"
    /\ hist'[c].bodies = hist[c].bodies

NoRetryNoReauth(c) ==
    FailedGetStep(c) =>
        /\ hist'[c].gets = hist[c].gets
        /\ hist'[c].logins = hist[c].logins
        /\ hist'[c].attempts = hist[c].attempts
        /\ hist'[c].thrown = Append(hist[c].thrown, BackendFailedMsg)
        /\ call'[c].pc = "done"
        /\ authToken' = authToken /\ tokenExpiry' = tokenExpiry

\* The step in which call c processes a login response that carries a token.
SuccessfulLoginStep(c) ==
    /\ call[c].pc = "login_replied"
    /\ call[c].response.status = "ok"
    /\ CanRead(call[c].response.data)
    /\ Truthy(Prop(call[c].response.data, "token"))
    /\ call'[c].pc # "login_replied"

PairChanged == authToken' # authToken \/ tokenExpiry' # tokenExpiry

C21_CredentialFrame ==
    [][/\ \A c \in Slots : NoRetryNoReauth(c)
       /\ PairChanged => \E c \in Slots : SuccessfulLoginStep(c)]_vars

(***************************************************************************)
(* C22. Every GET sent upstream follows, within the same makeBackendRequest *)
(* call, a getAuthToken call and carries the token that call returned,      *)
(* which is a token some successful login exchange issued; when             *)
(* getAuthToken raises, no GET is sent for that Backend Client call.        *)
(***************************************************************************)
\* tok is one of the tokens the backend has issued.
IssuedToken(tok) == \E k \in 1..Len(issued) : tok = Tok(k)

GetsFollowTokens(c) ==
    /\ Len(hist[c].gets) <= Len(hist[c].attempts)
    /\ Len(hist[c].served) = Len(hist[c].gets)
    /\ \A i \in 1..Len(hist[c].gets) : hist[c].gets[i].token = hist[c].served[i].token

NoGetAfterAuthFailure(c) ==
    Raised(c, AuthFailedMsg) => Len(hist[c].gets) = Len(hist[c].attempts) - 1

C22_AuthenticatedGets ==
    \A c \in Slots :
        /\ GetsFollowTokens(c)
        /\ NoGetAfterAuthFailure(c)
        /\ \A i \in 1..Len(hist[c].gets) : IssuedToken(hist[c].gets[i].token)

(***************************************************************************)
(* C23. literalSearch reports success:false only when an exception          *)
(* occurred: whenever neither HTTP attempt raises, searchProducts returns   *)
(* success:true, including when the vector-search response had              *)
(* success=false and the fallback listing came back empty, in which case    *)
(* totalFound and products are taken from that vector-search response.      *)
(***************************************************************************)
NoHttpRaised(c) ==
    /\ ~Raised(c, AuthFailedMsg)
    /\ ~Raised(c, BackendFailedMsg)

ReportsSuccess(c) == Prop(output[c].payload, "success") = Bool(TRUE)

\* The claim as stated: no HTTP attempt raised, so success is true.
C23_SuccessUnlessHttpRaises ==
    \A c \in Slots :
        (Finished(c, SearchTool) /\ NoHttpRaised(c)) => ReportsSuccess(c)

\* The vector search answered success=false and the listing came back unusable.
FailedVectorEmptyListing(c) ==
    /\ HasVectorBody(c)
    /\ ~Truthy(Prop(VectorBody(c), "success"))
    /\ Len(hist[c].bodies) = 2
    /\ ~ListingUsable(hist[c].bodies[2].body)

\* The result's totalFound and products are those of the vector-search body.
TakenFromVectorBody(c) ==
    LET body == VectorBody(c)
        given == Or(Prop(body, "products"), Arr(<<>>))
        products == Prop(output[c].payload, "products")
    IN /\ Prop(output[c].payload, "totalFound") = Or(Prop(body, "totalFound"), Num(0))
       /\ IsArray(products) /\ Len(products.a) = Len(given.a)
       /\ \A i \in 1..Len(given.a) :
              /\ Prop(products.a[i], "code") = Prop(given.a[i], "code")
              /\ Prop(products.a[i], "name") = Prop(given.a[i], "name")

\* As amended: success is false exactly when an exception occurred inside
\* searchProducts, whether an HTTP attempt raised it or the processing of a
\* response did; with none, success is true and the case of the claim holds.
C23_FailureOnlyOnException ==
    \A c \in Slots :
        Finished(c, SearchTool) =>
            /\ hist[c].thrown # <<>> <=> Prop(output[c].payload, "success") = Bool(FALSE)
            /\ hist[c].thrown = <<>> => ReportsSuccess(c)
            /\ (hist[c].thrown = <<>> /\ FailedVectorEmptyListing(c)) =>
                   TakenFromVectorBody(c)

\* The vector search answered success=false with one product, the listing came
\* back empty, and the search returned success:true with that product.
C23_Witness ==
    /\ Finished(1, SearchTool)
    /\ hist[1].thrown = <<>>
    /\ FailedVectorEmptyListing(1)
    /\ Prop(VectorBody(1), "success") = Bool(FALSE)
    /\ hist[1].bodies[2].body = Arr(<<>>)
    /\ ReportsSuccess(1)
    /\ Prop(output[1].payload, "totalFound") = Num(1)
    /\ Len(output[1].payload.o.products.a) = 1

(***************************************************************************)
(* C24. Under any interleaving of concurrent getAuthToken calls the cached  *)
(* token and its expiry are written together in one step: in every          *)
(* reachable state either both are unset, or authToken is the token         *)
(* returned by the login response processed most recently and tokenExpiry   *)
(* is that response's processing time + 23h; a failing login never clears   *)
(* or alters a token stored by another caller.                              *)
(***************************************************************************)
\* The step in which call c's getAuthToken processes its login response.
LoginProcessedStep(c) ==
    call[c].pc = "login_replied" /\ call'[c].pc # "login_replied"

\* The login response of call c carries a token.
CarriesToken(c) ==
    /\ call[c].response.status = "ok"
    /\ CanRead(call[c].response.data)
    /\ Truthy(Prop(call[c].response.data, "token"))

\* Processing a response that carries a token stores it with its expiry;
\* processing any other leaves the pair as it was.
WritesPairTogether(c) ==
    LoginProcessedStep(c) =>
        IF CarriesToken(c)
        THEN /\ authToken' = Prop(call[c].response.data, "token")
             /\ tokenExpiry' = Num(now + TokenCacheUnits)
        ELSE authToken' = authToken /\ tokenExpiry' = tokenExpiry

C24_PairWrittenTogether ==
    [][/\ \A c \in Slots : WritesPairTogether(c)
       /\ PairChanged => \E c \in Slots : LoginProcessedStep(c)
       /\ \/ authToken' = Null /\ tokenExpiry' = Null
          \/ IssuedToken(authToken') /\ tokenExpiry'.t = "number"]_vars

====
